---------------------------- MODULE Spec2Model ----------------------------
(***************************************************************************)
(* kysely-to-dexie: a Kysely schema (a type) and a primary-key             *)
(* configuration are turned into a Dexie database.                         *)
(*                                                                         *)
(* Two layers are modelled.                                                *)
(*  - The type layer of src/src/example.ts (FindPrimaryKey,                *)
(*    PrimaryKeyConfig, DexieFromKysely and the constraint of              *)
(*    createBuilder).  A type is modelled by the set of values assignable  *)
(*    to it and the type checker by the diagnostics it reports; a chain    *)
(*    with a diagnostic is not built.                                      *)
(*  - The run-time layer: build() and the operations of the Dexie          *)
(*    instance it returns.  Dexie itself is a dependency; its operations   *)
(*    are modelled as the repository's tests and comments show them, and   *)
(*    an outcome the repository does not determine is a nondeterministic   *)
(*    choice.                                                              *)
(***************************************************************************)
EXTENDS Naturals, Sequences, FiniteSets, TLC

VARIABLES
    KDatabase,     \* the Kysely schema bound by kyselyToDexieFactory<KDatabase>()
    config,        \* the configuration bound by createBuilder(config)
    candidates,    \* FindPrimaryKey<KDatabase[t]> per table, as the checker resolved it
    diagnostics,   \* what the type checker reported for the chain
    pc,            \* position in the chain
    storesConfig,  \* the object build() hands to db.version(version).stores()
    db,            \* the Dexie instance: name, version, per-table schema
    contents,      \* the records of each object store
    lastOp,        \* the last table operation and its settled result
    emitted        \* what each build() so far was given and handed to Dexie

vars == <<KDatabase, config, candidates, diagnostics, pc, storesConfig, db,
          contents, lastOp, emitted>>

(***************************************************************************)
(* Bounds                                                                  *)
(***************************************************************************)
\* distinct values of a key column
MaxVal == 2
\* distinct values of a number or string column that is not the key
MaxPlain == 1
\* records held by one object store
MaxRecords == 2
\* columns of a table type that is not one of the repository's own
MaxColumns == 3
\* runs of the builder chain one after the other
MaxChains == 3

EmptyFn == <<>>

(***************************************************************************)
(* Column types.  A column is Generated<number|string> or a plain          *)
(* number, string or boolean.                                              *)
(***************************************************************************)
Generated(t) == [kind |-> "Generated", type |-> t]

Plain(t) == [kind |-> "Plain", type |-> t]

ColumnTypes ==
    {Generated("number"), Generated("string"),
     Plain("string"), Plain("number"), Plain("boolean")}

\* T[K] extends Generated<any>
ExtendsGenerated(col) == col.kind = "Generated"

\* keyof Selectable<T>: Selectable<T> keeps every column of T and replaces a
\* generated column's type by its select type.
KeyofSelectable(T) == DOMAIN T

\* A mutant: the first branch of the conditional type and its second swapped.
FindPrimaryKeySwapped(T) ==
    {K \in DOMAIN T : ~ExtendsGenerated(T[K])} \cap KeyofSelectable(T)

\* The union of string literal types FindPrimaryKey<T> resolves to, as the set
\* of its members; never is the empty set.
FindPrimaryKey(T) ==
    {K \in DOMAIN T : ExtendsGenerated(T[K])} \cap KeyofSelectable(T)

\* A mutant: any column of the table is allowed as the primary key.
PrimaryKeyConfigAnyColumn(KDb) ==
    [KTableName \in DOMAIN KDb |-> DOMAIN KDb[KTableName]]

\* PrimaryKeyConfig<KDatabase>: one required property per table, of type
\* FindPrimaryKey<KDatabase[KTableName]>.
PrimaryKeyConfig(KDb) ==
    [KTableName \in DOMAIN KDb |-> FindPrimaryKey(KDb[KTableName])]

(***************************************************************************)
(* The type checker.  A configuration object is a function from property   *)
(* names to string literals; a diagnostic names the offending table, the   *)
(* literal found and the type expected there.                              *)
(***************************************************************************)
Diagnostic(code, table, got, expected) ==
    [code |-> code, table |-> table, got |-> got, expected |-> expected]

\* A mutant: the constraint stops at the first table in need of a check, so
\* nothing is reported.
ConstraintDiagnosticsNone(cfg, KDb) == {}

\* PKConfig extends PrimaryKeyConfig<KDatabase>: every property of the
\* constraint must be present in PKConfig with an assignable type.  A subtype
\* may hold further properties: they are not looked at.
ConstraintDiagnostics(cfg, KDb) ==
    {Diagnostic("TS2741", t, "", PrimaryKeyConfig(KDb)[t]) :
        t \in DOMAIN KDb \ DOMAIN cfg}
    \cup
    {Diagnostic("TS2322", t, cfg[t], PrimaryKeyConfig(KDb)[t]) :
        t \in {u \in DOMAIN KDb \cap DOMAIN cfg :
                  cfg[u] \notin PrimaryKeyConfig(KDb)[u]}}

\* An object literal checked with `satisfies PrimaryKeyConfig<KDatabase>` may
\* only specify known properties.
ExcessDiagnostics(cfg, KDb) ==
    {Diagnostic("TS2353", t, cfg[t], {}) : t \in DOMAIN cfg \ DOMAIN KDb}

\* The two ways the repository declares a configuration object.
Declarations == {"satisfies", "asConst"}

\* Everything the type checker reports for
\* kyselyToDexieFactory<KDatabase>()(config) with config declared `how`.
TypeCheck(how, cfg, KDb) ==
    ConstraintDiagnostics(cfg, KDb)
    \cup (IF how = "satisfies" THEN ExcessDiagnostics(cfg, KDb) ELSE {})

\* The table types the returned instance exposes: one EntityTable per table of
\* KDatabase, keyed by PKConfig[KTableName].
DexieFromKysely(KDb, PKConfig) ==
    [KTableName \in DOMAIN KDb |->
        [entity |-> KDb[KTableName], key |-> PKConfig[KTableName]]]

(***************************************************************************)
(* The schemas the repository uses.                                        *)
(***************************************************************************)
Users ==
    [id |-> Generated("number"), name |-> Plain("string")]

Products ==
    [sku |-> Generated("string"), name |-> Plain("string"),
     price |-> Plain("number")]

AmbiguousItems ==
    [id1 |-> Generated("number"), id2 |-> Generated("string"),
     description |-> Plain("string")]

Logs ==
    [message |-> Plain("string")]

TestDatabase ==
    [users |-> Users, products |-> Products, ambiguous_items |-> AmbiguousItems]

KyselyDatabase ==
    [groceries |-> [id |-> Generated("string"), name |-> Plain("string"),
                    quantity |-> Plain("number")],
     users |-> [id |-> Generated("string"), otherId |-> Generated("number"),
                age |-> Plain("boolean")]]

\* The type arguments the repository calls kyselyToDexieFactory with.
Databases ==
    {TestDatabase, KyselyDatabase,
     [users |-> Users], [products |-> Products],
     [ambiguous_items |-> AmbiguousItems], [logs |-> Logs]}

\* Every table type of at most MaxColumns columns, the empty one included.
ColumnNames == {<<"a", "b", "c", "d", "e">>[i] : i \in 1..MaxColumns}

TableTypes == UNION {[S -> ColumnTypes] : S \in SUBSET ColumnNames}

\* A schema of one such table.
OtherDatabases == {[items |-> T] : T \in TableTypes}

\* A table name no schema holds, and a string no table has as a column.
GhostTable == "ghosts"

NoColumn == "no_such_column"

ColumnsOf(KDb) == UNION {DOMAIN KDb[t] : t \in DOMAIN KDb}

\* The literals a configuration may name for table t.
Choices(KDb, t) ==
    IF t \in DOMAIN KDb THEN DOMAIN KDb[t] \cup {NoColumn} ELSE {"id"}

\* The configuration objects a caller may write for KDb.
Configs(KDb) ==
    UNION {
        {c \in [S -> ColumnsOf(KDb) \cup {NoColumn, "id"}] :
            \A t \in S : c[t] \in Choices(KDb, t)} :
        S \in SUBSET (DOMAIN KDb \cup {GhostTable})}

(***************************************************************************)
(* build(): the store definition and what Dexie makes of it.  A string is  *)
(* the sequence of its parts, a key-syntax prefix being one part.          *)
(***************************************************************************)
\* A mutant: the key is declared auto-incrementing.
StoreSpecAuto(pk) == <<"++", pk>>

\* A mutant: the template holds the name of the variable, not its value.
StoreSpecLiteral(pk) == <<"pk">>

\* `${pk as string}`
StoreSpec(pk) == <<pk>>

\* A mutant: every store is keyed by "id", whatever the configuration chose.
StoresConfigOfId(cfg) ==
    [tableName \in DOMAIN cfg |-> StoreSpec("id")]

\* A mutant: the entries are collected in an object the module keeps, so the
\* definition of one build holds what the builds before it left there.
StoresConfigOfShared(cfg) ==
    LET kept == IF emitted = <<>> THEN EmptyFn
                ELSE emitted[Len(emitted)].storesConfig
    IN  [tableName \in DOMAIN cfg \cup DOMAIN kept |->
            IF tableName \in DOMAIN cfg THEN StoreSpec(cfg[tableName])
            ELSE kept[tableName]]

\* Object.fromEntries(Object.entries(config).map(([tableName, pk]) => ...))
StoresConfigOf(cfg) ==
    [tableName \in DOMAIN cfg |-> StoreSpec(cfg[tableName])]

\* Dexie's reading of a primary-key definition: "&" marks the key unique,
\* "++" auto-incrementing, and what follows the prefixes is the key path.
ParseStoreSpec(spec) ==
    [name   |-> spec[Len(spec)],
     auto   |-> \E i \in 1..(Len(spec) - 1) : spec[i] = "++",
     unique |-> \E i \in 1..(Len(spec) - 1) : spec[i] = "&"]

\* db.version(version).stores(storesConfig): one object store per property.
Stores(definition) ==
    [tableName \in DOMAIN definition |->
        [primKey |-> ParseStoreSpec(definition[tableName])]]

NoDb == [name |-> "", version |-> 0, tables |-> EmptyFn]

\* The arguments of build() in the repository's example.
DbNames == {"localdb"}

Versions == {1}

(***************************************************************************)
(* Values and records.                                                     *)
(***************************************************************************)
Undefined == [type |-> "undefined", v |-> 0]

\* The values of a key of the given type.
KeyValues(type) == {[type |-> type, v |-> n] : n \in 1..MaxVal}

\* The numbers that stand for the values of column c of T: MaxVal values for
\* the key, two for a boolean, MaxPlain for any other column.
Range(T, key, c) ==
    IF c = key THEN 1..MaxVal
    ELSE IF T[c].type = "boolean" THEN 0..1
    ELSE 1..MaxPlain

\* The parameter type of Table.add: every column of the entity but the key is
\* required, the key is optional.
InsertType(T, key) ==
    UNION {
        {[c \in S |-> [type |-> T[c].type, v |-> n[c]]] :
            n \in {m \in [S -> 0..(MaxVal + MaxPlain)] :
                      \A c \in S : m[c] \in Range(T, key, c)}} :
        S \in {DOMAIN T, DOMAIN T \ {key}}}

\* The value at the key path of a record.
KeyOf(primKey, r) ==
    IF primKey.name \in DOMAIN r THEN r[primKey.name] ELSE Undefined

Stored(rows, primKey, key) ==
    \E i \in 1..Len(rows) : KeyOf(primKey, rows[i]) = key

\* An object store keeps its records in the order of their keys.
Insert(rows, primKey, r) ==
    LET k == KeyOf(primKey, r).v
        n == Cardinality({i \in 1..Len(rows) : KeyOf(primKey, rows[i]).v <= k})
    IN  SubSeq(rows, 1, n) \o <<r>> \o SubSeq(rows, n + 1, Len(rows))

\* The key a key generator hands out: one above the greatest key in use.
NextKey(rows, primKey) ==
    LET used == {KeyOf(primKey, rows[i]).v : i \in 1..Len(rows)}
    IN  [type |-> "number",
         v |-> IF used = {} THEN 1
               ELSE 1 + CHOOSE m \in used : \A u \in used : u <= m]

Result(status, error, key, rows) ==
    [status |-> status, error |-> error, key |-> key, records |-> rows]

\* What add(r) may do to an object store holding `rows`: the set of
\* <<result, rows afterwards>>.
\*  - The record has no key and the store generates none: nothing is stored.
\*    Whether the returned promise rejects (the DataError of the tests'
\*    commented-out expectations) or the call passes silently is not
\*    determined by the repository: the tests discard the promise.
\*  - The key is in use: a store whose key is marked unique rejects the
\*    record; for an unmarked key the repository determines nothing.
AddOutcomes(rows, primKey, r) ==
    LET key == KeyOf(primKey, r)
    IN  IF key = Undefined
        THEN IF primKey.auto
             THEN LET k == NextKey(rows, primKey)
                      withKey == [c \in DOMAIN r \cup {primKey.name} |->
                                     IF c = primKey.name THEN k ELSE r[c]]
                  IN  {<<Result("fulfilled", "none", k, <<>>),
                         Insert(rows, primKey, withKey)>>}
             ELSE {<<Result("rejected", "DataError", Undefined, <<>>), rows>>,
                   <<Result("fulfilled", "none", Undefined, <<>>), rows>>}
        ELSE IF Stored(rows, primKey, key)
             THEN {<<Result("rejected", "ConstraintError", Undefined, <<>>), rows>>}
                  \cup (IF primKey.unique THEN {}
                        ELSE {<<Result("fulfilled", "none", key, <<>>),
                                Insert(rows, primKey, r)>>})
             ELSE {<<Result("fulfilled", "none", key, <<>>),
                     Insert(rows, primKey, r)>>}

\* get(key): the record stored under the key, or undefined (no record).
GetResult(rows, primKey, key) ==
    LET hits == {i \in 1..Len(rows) : KeyOf(primKey, rows[i]) = key}
    IN  IF hits = {} THEN Result("fulfilled", "none", Undefined, <<>>)
        ELSE Result("fulfilled", "none", key,
                    <<rows[CHOOSE i \in hits : \A j \in hits : i <= j]>>)

\* toArray(): every record of the store.
ToArrayResult(rows) == Result("fulfilled", "none", Undefined, rows)

\* An operation as its caller sees it: the table, the record passed to add or
\* the key passed to get, and the settled result.
Op(op, table, record, key, result) ==
    [op |-> op, table |-> table, record |-> record, key |-> key,
     result |-> result]

NoOp == Op("none", "", <<>>, Undefined, Result("none", "none", Undefined, <<>>))

(***************************************************************************)
(* The builder chain and the table operations.                             *)
(***************************************************************************)
InitWith(KDb) ==
    /\ KDatabase = KDb
    /\ config = EmptyFn
    /\ candidates = EmptyFn
    /\ diagnostics = {}
    /\ pc = "start"
    /\ storesConfig = EmptyFn
    /\ db = NoDb
    /\ contents = EmptyFn
    /\ lastOp = NoOp
    /\ emitted = <<>>

\* The schemas of the tests that add and read records: one table each.
StoreDatabases == {KDb \in Databases : Cardinality(DOMAIN KDb) = 1}

Init == \E KDb \in StoreDatabases : InitWith(KDb)

InitBuilder == \E KDb \in Databases \cup OtherDatabases : InitWith(KDb)

\* kyselyToDexieFactory<KDatabase>(): locks in the schema type.
kyselyToDexieFactory ==
    /\ pc = "start"
    /\ pc' = "schemaBound"
    /\ UNCHANGED <<KDatabase, config, candidates, diagnostics,
                   storesConfig, db, contents, lastOp, emitted>>

\* createBuilder(config): the type checker decides whether the chain exists.
createBuilder(how, cfg) ==
    /\ pc = "schemaBound"
    /\ config' = cfg
    /\ candidates' = PrimaryKeyConfig(KDatabase)
    /\ diagnostics' = TypeCheck(how, cfg, KDatabase)
    /\ pc' = IF diagnostics' = {} THEN "configBound" ELSE "rejected"
    /\ UNCHANGED <<KDatabase, storesConfig, db, contents, lastOp, emitted>>

\* build(dbName, version)
build(dbName, version) ==
    /\ pc = "configBound"
    /\ storesConfig' = StoresConfigOf(config)
    /\ db' = [name |-> dbName, version |-> version,
              tables |-> Stores(storesConfig')]
    /\ contents' = [tableName \in DOMAIN storesConfig' |-> <<>>]
    /\ pc' = "built"
    /\ emitted' = Append(emitted, [KDatabase |-> KDatabase, config |-> config,
                                   storesConfig |-> storesConfig'])
    /\ UNCHANGED <<KDatabase, config, candidates, diagnostics, lastOp>>

\* The tables the returned instance is typed to hold.
Tables == DOMAIN DexieFromKysely(KDatabase, config)

\* dxdb[table].add(r)
add(table, r) ==
    /\ pc = "built"
    /\ \E outcome \in AddOutcomes(contents[table], db.tables[table].primKey, r) :
          /\ Len(outcome[2]) <= MaxRecords
          /\ contents' = [contents EXCEPT ![table] = outcome[2]]
          /\ lastOp' = Op("add", table, <<r>>, Undefined, outcome[1])
    /\ UNCHANGED <<KDatabase, config, candidates, diagnostics, pc,
                   storesConfig, db, emitted>>

\* dxdb[table].get(key)
get(table, key) ==
    /\ pc = "built"
    /\ lastOp' = Op("get", table, <<>>, key,
                    GetResult(contents[table], db.tables[table].primKey, key))
    /\ UNCHANGED <<KDatabase, config, candidates, diagnostics, pc,
                   storesConfig, db, contents, emitted>>

\* dxdb[table].toArray()
toArray(table) ==
    /\ pc = "built"
    /\ lastOp' = Op("toArray", table, <<>>, Undefined,
                    ToArrayResult(contents[table]))
    /\ UNCHANGED <<KDatabase, config, candidates, diagnostics, pc,
                   storesConfig, db, contents, emitted>>

\* The keys get() is called with: those of the key column's type.
KeysOf(table) ==
    KeyValues(DexieFromKysely(KDatabase, config)[table].entity
                 [DexieFromKysely(KDatabase, config)[table].key].type)

Builder ==
    \/ kyselyToDexieFactory
    \/ \E how \in Declarations, cfg \in Configs(KDatabase) : createBuilder(how, cfg)
    \/ \E dbName \in DbNames, version \in Versions : build(dbName, version)

TableOps ==
    \/ /\ pc = "built"
       /\ \E table \in Tables :
             \E r \in InsertType(KDatabase[table], config[table]) : add(table, r)
    \/ /\ pc = "built"
       /\ \E table \in Tables : \E key \in KeysOf(table) : get(table, key)
    \/ /\ pc = "built"
       /\ \E table \in Tables : toArray(table)

Next == Builder \/ TableOps

\* The chain followed by the table operations, on the one-table schemas.
Spec == Init /\ [][Next]_vars

\* The chain alone, on every schema of the repository and on every schema of
\* one table of at most MaxColumns columns.
SpecBuilder == InitBuilder /\ [][Builder]_vars

\* The caller starts the chain again, for the same schema or another one.
\* Each call of kyselyToDexieFactory and of createBuilder has its own
\* parameters and locals, and the module has no variable of its own: nothing
\* of the chain before is left but what it returned.
newChain(KDb) ==
    /\ pc \in {"built", "rejected"}
    /\ Len(emitted) < MaxChains
    /\ KDatabase' = KDb
    /\ config' = EmptyFn
    /\ candidates' = EmptyFn
    /\ diagnostics' = {}
    /\ pc' = "start"
    /\ storesConfig' = EmptyFn
    /\ db' = NoDb
    /\ contents' = EmptyFn
    /\ lastOp' = NoOp
    /\ UNCHANGED emitted

NextChains == Builder \/ \E KDb \in StoreDatabases : newChain(KDb)

\* Chains run one after the other, on the one-table schemas.
SpecChains == Init /\ [][NextChains]_vars

(***************************************************************************)
(* Properties.  The specification speaks of a table's candidate-key set    *)
(* (its fields tagged Generated), of a validation that fails with          *)
(* NoCandidateKey, InvalidKeyChoice or UnknownTable, and of a key          *)
(* specification {fieldName, unique, externallySupplied}.  In the          *)
(* repository the validation is the type check of the chain, and the key   *)
(* specification is the primary key Dexie reads from the store definition. *)
(***************************************************************************)
\* The fields of a table tagged Generated.
CandidateKeySet(T) == {c \in DOMAIN T : T[c].kind = "Generated"}

\* The type checker has looked at the configuration.
Checked == pc \in {"configBound", "rejected", "built"}

\* The chain was refused by the type checker.
Rejected == pc = "rejected"

\* The literal chosen for table t is not assignable to the non-empty type
\* expected there.
InvalidKeyChoice(t) ==
    \E d \in diagnostics :
        /\ d.code = "TS2322" /\ d.table = t /\ d.got = config[t]
        /\ d.got \notin d.expected

\* The type expected for table t is never: nothing is assignable to it.
NoCandidateKey(t) ==
    \E d \in diagnostics :
        /\ d.code = "TS2322" /\ d.table = t /\ d.got = config[t]
        /\ d.expected = {}

\* The configuration names a table the schema does not hold.
UnknownTable(t) ==
    \E d \in diagnostics : d.code = "TS2353" /\ d.table = t

\* The key specification of a store: the field, whether it is marked unique,
\* whether the caller supplies it.
KeySpec(t) ==
    [fieldName |-> db.tables[t].primKey.name,
     unique |-> db.tables[t].primKey.unique,
     externallySupplied |-> ~db.tables[t].primKey.auto]

\* C1: for every (table, chosenField) entry of the mapping, the key
\* specification build() emits for the table names chosenField as the primary
\* key and is unique and externally supplied, never auto-incrementing.
C1_KeySpecUniqueExternallySupplied ==
    pc = "built" =>
        \A t \in DOMAIN config :
            /\ t \in DOMAIN db.tables
            /\ KeySpec(t) = [fieldName |-> config[t], unique |-> TRUE,
                             externallySupplied |-> TRUE]

\* C2: a chosen field that is not in the table's candidate-key set fails
\* validation with InvalidKeyChoice, and every pair that passes validation has
\* its chosen field in the candidate-key set of the table.
C2_InvalidKeyChoice ==
    Checked =>
        \A t \in DOMAIN KDatabase \cap DOMAIN config :
            /\ config[t] \notin CandidateKeySet(KDatabase[t])
                  => Rejected /\ InvalidKeyChoice(t)
            /\ ~Rejected => config[t] \in CandidateKeySet(KDatabase[t])

\* C2's case: a Plain field chosen for a table that has Generated fields, and
\* the chain refused for it.
C2_Witness ==
    /\ Rejected
    /\ \E t \in DOMAIN KDatabase \cap DOMAIN config :
          /\ CandidateKeySet(KDatabase[t]) # {}
          /\ config[t] \in DOMAIN KDatabase[t] \ CandidateKeySet(KDatabase[t])
          /\ InvalidKeyChoice(t)

\* C3: for a table with no Generated field every mapping entry, whatever field
\* it names, fails validation with NoCandidateKey, and no configuration of a
\* schema holding such a table is valid.
C3_NoCandidateKey ==
    Checked =>
        \A t \in DOMAIN KDatabase :
            CandidateKeySet(KDatabase[t]) = {}
                => /\ Rejected
                   /\ t \in DOMAIN config => NoCandidateKey(t)

\* C3's case: a table of Plain fields only, one of them chosen, and the chain
\* refused for it.
C3_Witness ==
    /\ Rejected
    /\ \E t \in DOMAIN KDatabase \cap DOMAIN config :
          /\ DOMAIN KDatabase[t] # {}
          /\ CandidateKeySet(KDatabase[t]) = {}
          /\ config[t] \in DOMAIN KDatabase[t]
          /\ NoCandidateKey(t)

\* C4: a mapping entry whose table is not in the bound schema fails validation
\* with UnknownTable, so build() never emits a key specification, nor creates
\* a store, for a table absent from the schema.
C4_UnknownTableRejected ==
    /\ Checked =>
          \A t \in DOMAIN config \ DOMAIN KDatabase :
              Rejected /\ UnknownTable(t)
    /\ DOMAIN storesConfig \subseteq DOMAIN KDatabase
    /\ DOMAIN db.tables \subseteq DOMAIN KDatabase

\* An entry of the mapping is invalid: its table is unknown, or has no
\* candidate key, or the chosen field is not one of its candidate keys.
InvalidEntry(t) ==
    \/ t \notin DOMAIN KDatabase
    \/ config[t] \notin CandidateKeySet(KDatabase[t])

\* C5: validation completes before any store is materialized: if any entry of
\* the mapping is invalid, no store definition is emitted and no store handle
\* is created, not even for the valid entries.
C5_AllOrNothing ==
    (\E t \in DOMAIN config : InvalidEntry(t))
        => /\ pc # "built"
           /\ storesConfig = EmptyFn
           /\ db = NoDb

\* C9: detect(table) is exactly the set of the fields tagged Generated: no
\* Plain field is in it, no Generated field is left out, a table without a
\* Generated field yields the empty set and one with several yields them all.
C9_DetectExactlyGenerated ==
    Checked =>
        /\ DOMAIN candidates = DOMAIN KDatabase
        /\ \A t \in DOMAIN KDatabase :
              /\ candidates[t] \subseteq DOMAIN KDatabase[t]
              /\ \A c \in DOMAIN KDatabase[t] :
                    /\ KDatabase[t][c].kind = "Plain" => c \notin candidates[t]
                    /\ KDatabase[t][c].kind = "Generated" => c \in candidates[t]

\* C9's case: the candidates of a table with several Generated fields and a
\* Plain one have been computed.
C9_Witness ==
    /\ Checked
    /\ \E t \in DOMAIN KDatabase :
          /\ Cardinality(CandidateKeySet(KDatabase[t])) >= 2
          /\ DOMAIN KDatabase[t] # CandidateKeySet(KDatabase[t])
          /\ Cardinality(candidates[t]) >= 2

AddedWithoutKey ==
    /\ lastOp.op = "add"
    /\ config[lastOp.table] \notin DOMAIN lastOp.record[1]

\* C7: an add of a record that lacks the resolved key field leaves the
\* contents of the table unchanged: no key is generated, no record is stored
\* and toArray() returns what it returned before, whatever the key's type.
C7_AddWithoutKeyStoresNothing ==
    [][(pc = "built" /\ AddedWithoutKey')
          => /\ contents' = contents
             /\ ToArrayResult(contents'[lastOp'.table])
                   = ToArrayResult(contents[lastOp'.table])
             /\ lastOp'.result.key = Undefined]_vars

\* C7's case: a record without its key was added to a table that holds a
\* record, and the table still holds that record alone.
C7_Witness ==
    /\ pc = "built"
    /\ AddedWithoutKey
    /\ Len(contents[lastOp.table]) = 1

\* The last operation was an add of a record that holds the resolved key
\* field.
AddedWithKey ==
    /\ lastOp.op = "add"
    /\ config[lastOp.table] \in DOMAIN lastOp.record[1]

\* C8: an add of a record that holds the resolved key field, under a key not
\* yet stored, succeeds and returns the value of that field, and get() of that
\* key then returns a record equal to the one added.
C8_AddReturnsKeyGetReturnsRecord ==
    [][(/\ pc = "built"
        /\ AddedWithKey'
        /\ ~Stored(contents[lastOp'.table], db.tables[lastOp'.table].primKey,
                   lastOp'.record[1][config[lastOp'.table]]))
          => /\ lastOp'.result.status = "fulfilled"
             /\ lastOp'.result.key = lastOp'.record[1][config[lastOp'.table]]
             /\ GetResult(contents'[lastOp'.table],
                          db.tables[lastOp'.table].primKey,
                          lastOp'.result.key).records = lastOp'.record]_vars

\* C8's case: get() has returned the record stored under its key from a table
\* of two records.
C8_Witness ==
    /\ pc = "built"
    /\ lastOp.op = "get"
    /\ Len(contents[lastOp.table]) = 2
    /\ lastOp.result.records # <<>>
    /\ lastOp.result.records[1][config[lastOp.table]] = lastOp.key
    /\ lastOp.result.records[1] = contents[lastOp.table][2]


\* Two entries of the log of builds were given the same schema and mapping.
SameInputs(a, b) == a.KDatabase = b.KDatabase /\ a.config = b.config

C12_StoreDefinitionPrependsUnique ==
    pc = "built" =>
        /\ DOMAIN storesConfig = DOMAIN config
        /\ \A tableName \in DOMAIN config :
              storesConfig[tableName] = <<"&", config[tableName]>>

=============================================================================
